---- MODULE Spec2Model ----
(***************************************************************************)
(* A model of the rect crate (src/src/lib.rs): the Rect value type, its    *)
(* queries (right, bottom, overlaps, edges, corners, contains), its        *)
(* mutators (expand, move_to, centre_on) and the InteriorIter cursor made  *)
(* by cells() and inner_cells().                                           *)
(*                                                                         *)
(* Coordinates are i32 in the source.  The model keeps them as unbounded   *)
(* integers drawn from small ranges: no operation reaches the limits of    *)
(* i32 within the bounds below, so no wrap-around or overflow panic is     *)
(* modelled.                                                               *)
(***************************************************************************)
EXTENDS Integers, Sequences, FiniteSets

VARIABLES
    rect,   \* the Rect the methods are called on
    iter,   \* Option<InteriorIter>: the iterator made from rect, if any
    made,   \* the method that made iter: "", "cells" or "inner_cells"
    out,    \* the points iter has yielded so far, in order
    last    \* the last call: its name, its argument and what it returned

vars == <<rect, iter, made, out, last>>

----------------------------------------------------------------------------
(* Bounds of the model. *)

\* left and top of the initial rect, and point arguments, lie in -MaxCoord..MaxCoord
MaxCoord == 1
\* wid and hgt of the initial rect lie in -MaxNeg..MaxDim
MaxNeg == 1
MaxDim == 4
\* each component of expand's dir lies in -MaxStep..MaxStep
MaxStep == 2

Coords == (0 - MaxCoord)..MaxCoord
Dims   == (0 - MaxNeg)..MaxDim
Steps  == (0 - MaxStep)..MaxStep

----------------------------------------------------------------------------
(* Values. *)

None    == <<>>
Some(v) == <<v>>

Point(x, y) == [x |-> x, y |-> y]

Abs(n) == IF n < 0 THEN 0 - n ELSE n

\* Rust's `/` on i32: the quotient truncated toward zero.
TruncDiv(a, b) ==
    IF (a >= 0) = (b > 0) THEN Abs(a) \div Abs(b) ELSE 0 - (Abs(a) \div Abs(b))

\* Rect::new
new(left, top, wid, hgt) == [top |-> top, left |-> left, wid |-> wid, hgt |-> hgt]

Points == {Point(x, y) : x \in Coords, y \in Coords}
Dirs   == {Point(x, y) : x \in Steps, y \in Steps}
Rects  == {new(l, t, w, h) : l \in Coords, t \in Coords, w \in Dims, h \in Dims}

----------------------------------------------------------------------------
(* Queries. *)

right(self) == self.left + self.wid - 1

bottom(self) == self.top - self.hgt + 1

top_left(self) == Point(self.left, self.top)

\* overlaps with `<` for the first `<=`: rects sharing one column are missed.
overlaps_strict(self, other) ==
    /\ self.left < right(other)
    /\ right(self) >= other.left
    /\ self.top >= bottom(other)
    /\ bottom(self) <= other.top

\* overlaps without its last comparison: a rect far above counts as overlapping.
overlaps_noy(self, other) ==
    /\ self.left <= right(other)
    /\ right(self) >= other.left
    /\ self.top >= bottom(other)

\* Rect::overlaps
overlaps(self, other) ==
    /\ self.left <= right(other)
    /\ right(self) >= other.left
    /\ self.top >= bottom(other)
    /\ bottom(self) <= other.top

contains(self, pos) ==
    /\ self.left <= pos.x
    /\ right(self) >= pos.x
    /\ self.top >= pos.y
    /\ bottom(self) <= pos.y

\* The number of values of the Rust range lo..=hi.
RangeLen(lo, hi) == IF hi >= lo THEN hi - lo + 1 ELSE 0

\* for x in left..=right { push (x, top); push (x, bottom) }
edges_rows(self) ==
    [i \in 1..(2 * RangeLen(self.left, right(self))) |->
        Point(self.left + ((i - 1) \div 2),
              IF i % 2 = 1 THEN self.top ELSE bottom(self))]

\* for y in lo..=hi { push (left, y); push (right, y) }
edges_cols(self, lo, hi) ==
    [i \in 1..(2 * RangeLen(lo, hi)) |->
        Point(IF i % 2 = 1 THEN self.left ELSE right(self),
              lo + ((i - 1) \div 2))]

\* edges whose second loop runs over bottom..=top: the corners come twice.
edges_closed(self) ==
    edges_rows(self) \o edges_cols(self, bottom(self), self.top)

\* Rect::edges
edges(self) ==
    edges_rows(self) \o edges_cols(self, bottom(self) + 1, self.top - 1)

corners(self) ==
    << Point(self.left, self.top),
       Point(right(self), self.top),
       Point(self.left, bottom(self)),
       Point(right(self), bottom(self)) >>

----------------------------------------------------------------------------
(* Mutators, as functions from the rect before to the rect after. *)

\* expand without abs(): a negative component shrinks the rect.
expand_signed(self, dir) ==
    LET wid  == self.wid + dir.x
        left == IF dir.x < 0 THEN self.left + dir.x ELSE self.left
        hgt  == self.hgt + dir.y
        top  == IF dir.y > 0 THEN self.top + dir.y ELSE self.top
    IN  [top |-> top, left |-> left, wid |-> wid, hgt |-> hgt]

\* expand without `if dir.x < 0`: left moves for every dir.x.
expand_shift(self, dir) ==
    LET wid  == self.wid + Abs(dir.x)
        left == self.left + dir.x
        hgt  == self.hgt + Abs(dir.y)
        top  == IF dir.y > 0 THEN self.top + dir.y ELSE self.top
    IN  [top |-> top, left |-> left, wid |-> wid, hgt |-> hgt]

\* Rect::expand
expand(self, dir) ==
    LET wid  == self.wid + Abs(dir.x)
        left == IF dir.x < 0 THEN self.left + dir.x ELSE self.left
        hgt  == self.hgt + Abs(dir.y)
        top  == IF dir.y > 0 THEN self.top + dir.y ELSE self.top
    IN  [top |-> top, left |-> left, wid |-> wid, hgt |-> hgt]

move_to(self, pos) == [self EXCEPT !.left = pos.x, !.top = pos.y]

\* centre_on with quotients rounded down instead of toward zero.
centre_on_floor(self, centre) ==
    move_to(self, Point(centre.x + ((0 - self.wid) \div 2),
                        centre.y + (self.hgt \div 2)))

\* centre + Point::new(-self.wid / 2, self.hgt / 2): unary minus binds
\* tighter than `/`, and `/` truncates toward zero.
centre_on(self, centre) ==
    move_to(self, Point(centre.x + TruncDiv(0 - self.wid, 2),
                        centre.y + TruncDiv(self.hgt, 2)))

----------------------------------------------------------------------------
(* InteriorIter. *)

\* impl From<Rect> for InteriorIter
from(val) == [cur_pos |-> top_left(val), rect |-> val, end |-> FALSE]

cells(self) == from(self)

\* inner_cells shrinking wid and hgt by one only.
inner_cells_by_one(self) ==
    from(new(self.left + 1, self.top - 1, self.wid - 1, self.hgt - 1))

\* Rect::inner_cells
inner_cells(self) ==
    from(new(self.left + 1, self.top - 1, self.wid - 2, self.hgt - 2))

\* next with `>=` for `>` in the end-of-row test: each row ends a cell early.
next_short_row(self) ==
    IF self.end THEN [self |-> self, ret |-> None]
    ELSE
        LET ret   == self.cur_pos
            x1    == self.cur_pos.x + 1
            wrap  == x1 >= right(self.rect)
            new_x == IF wrap THEN self.rect.left ELSE x1
            y     == IF wrap THEN self.cur_pos.y - 1 ELSE self.cur_pos.y
            end   == wrap /\ y < bottom(self.rect)
        IN  [self |-> [cur_pos |-> Point(new_x, y), rect |-> self.rect, end |-> end],
             ret  |-> Some(ret)]

\* next that goes back to the top row where it should set end.
next_restart(self) ==
    IF self.end THEN [self |-> self, ret |-> None]
    ELSE
        LET ret   == self.cur_pos
            x1    == self.cur_pos.x + 1
            wrap  == x1 > right(self.rect)
            new_x == IF wrap THEN self.rect.left ELSE x1
            y1    == IF wrap THEN self.cur_pos.y - 1 ELSE self.cur_pos.y
            y     == IF wrap /\ y1 < bottom(self.rect) THEN self.rect.top ELSE y1
        IN  [self |-> [cur_pos |-> Point(new_x, y), rect |-> self.rect, end |-> FALSE],
             ret  |-> Some(ret)]

\* Iterator::next: the iterator afterwards and the value returned.
\* The assignment of cur_pos.x inside the wrap branch is overwritten by the
\* final `self.cur_pos.x = new_x`, which runs on every path.
next(self) ==
    IF self.end THEN [self |-> self, ret |-> None]
    ELSE
        LET ret   == self.cur_pos
            x1    == self.cur_pos.x + 1
            wrap  == x1 > right(self.rect)
            new_x == IF wrap THEN self.rect.left ELSE x1
            y     == IF wrap THEN self.cur_pos.y - 1 ELSE self.cur_pos.y
            end   == wrap /\ y < bottom(self.rect)
        IN  [self |-> [cur_pos |-> Point(new_x, y), rect |-> self.rect, end |-> end],
             ret  |-> Some(ret)]

----------------------------------------------------------------------------
(* The state machine: a rect is built, then methods are called on it. *)

Call(op, arg, ret) == [op |-> op, arg |-> arg, ret |-> ret]

Init ==
    /\ rect \in Rects
    /\ iter = None
    /\ made = ""
    /\ out = <<>>
    /\ last = Call("new", None, None)

CallOverlaps ==
    \E other \in Rects :
        /\ last' = Call("overlaps", other, overlaps(rect, other))
        /\ UNCHANGED <<rect, iter, made, out>>

CallContains ==
    \E pos \in Points :
        /\ last' = Call("contains", pos, contains(rect, pos))
        /\ UNCHANGED <<rect, iter, made, out>>

CallEdges ==
    /\ last' = Call("edges", None, edges(rect))
    /\ UNCHANGED <<rect, iter, made, out>>

CallCorners ==
    /\ last' = Call("corners", None, corners(rect))
    /\ UNCHANGED <<rect, iter, made, out>>

\* The model grows a rect to wid and hgt of at most MaxDim + 1.
CallExpand ==
    \E dir \in Dirs :
        /\ rect.wid + Abs(dir.x) <= MaxDim + 1
        /\ rect.hgt + Abs(dir.y) <= MaxDim + 1
        /\ rect' = expand(rect, dir)
        /\ last' = Call("expand", dir, None)
        /\ UNCHANGED <<iter, made, out>>

CallMoveTo ==
    \E pos \in Points :
        /\ rect' = move_to(rect, pos)
        /\ last' = Call("move_to", pos, None)
        /\ UNCHANGED <<iter, made, out>>

CallCentreOn ==
    \E centre \in Points :
        /\ rect' = centre_on(rect, centre)
        /\ last' = Call("centre_on", centre, None)
        /\ UNCHANGED <<iter, made, out>>

\* One iterator is followed from its construction on.
CallCells ==
    /\ iter = None
    /\ iter' = Some(cells(rect))
    /\ made' = "cells"
    /\ last' = Call("cells", None, None)
    /\ UNCHANGED <<rect, out>>

CallInnerCells ==
    /\ iter = None
    /\ iter' = Some(inner_cells(rect))
    /\ made' = "inner_cells"
    /\ last' = Call("inner_cells", None, None)
    /\ UNCHANGED <<rect, out>>

\* No rect of the model has more than MaxDim * MaxDim cells: the model
\* follows an iterator until it has yielded one point more than that.
CallNext ==
    /\ iter # None
    /\ Len(out) <= MaxDim * MaxDim
    /\ LET r == next(iter[1])
       IN  /\ iter' = Some(r.self)
           /\ out' = out \o r.ret
           /\ last' = Call("next", None, r.ret)
    /\ UNCHANGED <<rect, made>>

\* The queries take &self and return a value: none changes the rect, so one
\* query on a freshly built rect shows all a query can do.
QueryNext ==
    /\ last.op = "new"
    /\ (CallOverlaps \/ CallContains \/ CallEdges \/ CallCorners)

MutNext == CallExpand \/ CallMoveTo \/ CallCentreOn

IterNext == CallCells \/ CallInnerCells \/ CallNext

CellsNext == CallCells \/ CallInnerCells \/ CallNext \/ CallEdges

\* A query on a rect.
SpecQuery == Init /\ [][QueryNext]_vars

\* The mutators.
SpecMut == Init /\ [][MutNext]_vars

\* One iterator, and edges() of the same rect.
SpecIter == Init /\ [][CellsNext]_vars

\* One iterator whose caller keeps calling next().
FairIter == Init /\ [][IterNext]_vars /\ WF_vars(IterNext)

----------------------------------------------------------------------------
(* Properties of the queries (SpecQuery). *)

WellFormed(r) == r.wid >= 1 /\ r.hgt >= 1

Min(a, b) == IF a <= b THEN a ELSE b
Max(a, b) == IF a >= b THEN a ELSE b

\* Every point between the extreme edges of two rects.
Hull(a, b) ==
    {Point(x, y) : x \in Min(a.left, b.left)..Max(right(a), right(b)),
                   y \in Min(bottom(a), bottom(b))..Max(a.top, b.top)}

\* How often v occurs in the sequence s.
Count(s, v) == Cardinality({i \in DOMAIN s : s[i] = v})

\* C4: overlaps is symmetric, a.overlaps(b) == b.overlaps(a), for all rects,
\* those of zero or negative wid or hgt included.
C4_OverlapsSymmetric ==
    last.op = "overlaps" => (last.ret = overlaps(last.arg, rect))

\* A rect of negative width found to overlap another.
C4_Witness ==
    last.op = "overlaps" /\ last.ret /\ rect.wid < 0

\* C5: two well-formed rects overlap exactly when some point is contained in
\* both; sharing a single edge cell is overlapping.
C5_OverlapsIffCommonPoint ==
    (last.op = "overlaps" /\ WellFormed(rect) /\ WellFormed(last.arg)) =>
        (last.ret <=> \E p \in Hull(rect, last.arg) :
                         contains(rect, p) /\ contains(last.arg, p))

\* Two well-formed rects that share only the column right(rect) overlap.
C5_Witness ==
    /\ last.op = "overlaps"
    /\ WellFormed(rect) /\ WellFormed(last.arg)
    /\ right(rect) = last.arg.left
    /\ last.ret

\* C7 as stated: in edges() of a rect with wid >= 2 and hgt >= 2, each of the
\* four points of corners() appears exactly twice.
C7_CornersTwice ==
    (last.op = "edges" /\ rect.wid >= 2 /\ rect.hgt >= 2) =>
        \A i \in 1..4 : Count(last.ret, corners(rect)[i]) = 2

\* C7 as amended: in edges() of a rect with wid >= 2 and hgt >= 2, each of the
\* four points of corners() appears exactly once.
C7_CornersOnce ==
    (last.op = "edges" /\ rect.wid >= 2 /\ rect.hgt >= 2) =>
        \A i \in 1..4 : Count(last.ret, corners(rect)[i]) = 1

\* edges() was called on a rect with inner columns and inner rows.
C7_Witness ==
    last.op = "edges" /\ rect.wid >= 3 /\ rect.hgt >= 3

----------------------------------------------------------------------------
(* Properties of the iterator (SpecIter, FairIter). *)

\* The cells of [left, right] x [bottom, top].
CellSet(r) == {Point(x, y) : x \in r.left..right(r), y \in bottom(r)..r.top}

\* The points of a wid x hgt block whose top left cell is (left, top), the
\* top row first and each row from left to right.
RowMajor(left, top, wid, hgt) ==
    [i \in 1..(wid * hgt) |->
        Point(left + ((i - 1) % wid), top - ((i - 1) \div wid))]

Range(s) == {s[i] : i \in DOMAIN s}

\* next() has just reported that the iterator is exhausted.
Exhausted == last.op = "next" /\ last.ret = None

\* C1: for a rect with wid >= 1 and hgt >= 1, cells() collected until it is
\* exhausted is the sequence of the points of [left, right] x [bottom, top],
\* rows from top down to bottom, each row from left to right, every cell
\* exactly once: wid * hgt points.
C1_CellsRowMajor ==
    (made = "cells" /\ WellFormed(rect) /\ Exhausted) =>
        /\ out = RowMajor(rect.left, rect.top, rect.wid, rect.hgt)
        /\ Len(out) = rect.wid * rect.hgt
        /\ \A p \in CellSet(rect) : Count(out, p) = 1
        /\ \A i \in 1..(Len(out) - 1) :
              \/ out[i + 1].y < out[i].y
              \/ out[i + 1].y = out[i].y /\ out[i + 1].x = out[i].x + 1

\* cells() of a rect of several rows and columns was collected to the end.
C1_Witness ==
    made = "cells" /\ Exhausted /\ rect.wid >= 3 /\ rect.hgt >= 2

\* C2 as stated: for a rect with wid <= 2 or hgt <= 2, no next() on the
\* iterator of inner_cells() returns a value.
C2_InnerCellsEmpty ==
    (made = "inner_cells" /\ (rect.wid <= 2 \/ rect.hgt <= 2) /\ last.op = "next") =>
        last.ret = None

\* C3: an iterator of cells() or inner_cells(), of any rect, is exhausted
\* after finitely many calls of next(), and from the first call that
\* returns None on, every call returns None.
C3_ExhaustedForGood == <>[]Exhausted

\* An iterator over a rect without width ran through several rows and ended.
C3_Witness ==
    Exhausted /\ iter[1].rect.wid <= 0 /\ Len(out) >= 2

\* C8: for a rect with wid >= 3 and hgt >= 3, inner_cells() yields exactly
\* the points strictly inside the boundary, each once, top row first and
\* left to right; the points of edges() are exactly the other cells of the
\* rect, those on its boundary; no point comes from both.
C8_RingAndInterior ==
    (/\ made = "inner_cells" /\ iter[1].end
     /\ last.op = "edges"
     /\ rect.wid >= 3 /\ rect.hgt >= 3) =>
        LET inner == {p \in CellSet(rect) :
                        /\ rect.left < p.x /\ p.x < right(rect)
                        /\ bottom(rect) < p.y /\ p.y < rect.top}
            ring  == {p \in CellSet(rect) :
                        \/ p.x \in {rect.left, right(rect)}
                        \/ p.y \in {rect.top, bottom(rect)}}
        IN  /\ out = RowMajor(rect.left + 1, rect.top - 1, rect.wid - 2, rect.hgt - 2)
            /\ Range(out) = inner
            /\ \A p \in inner : Count(out, p) = 1
            /\ Range(last.ret) = ring
            /\ Range(last.ret) = CellSet(rect) \ Range(out)
            /\ Range(last.ret) \cap Range(out) = {}

\* Both were taken of a rect whose interior has more than one row and column.
C8_Witness ==
    /\ made = "inner_cells" /\ iter[1].end
    /\ last.op = "edges"
    /\ rect.wid >= 4 /\ rect.hgt >= 4

----------------------------------------------------------------------------
(* Properties of the mutators (SpecMut). *)

\* C6: expand(dir) adds |dir.x| to wid and |dir.y| to hgt and moves only the
\* side dir points to: right() is kept when dir.x < 0, left when dir.x >= 0,
\* bottom() when dir.y > 0, top when dir.y <= 0; expand((0,0)) changes nothing.
C6_ExpandFrame ==
    [][last'.op = "expand" =>
        LET dir == last'.arg
        IN  /\ rect'.wid = rect.wid + Abs(dir.x)
            /\ rect'.hgt = rect.hgt + Abs(dir.y)
            /\ dir.x < 0 => right(rect') = right(rect)
            /\ dir.x >= 0 => rect'.left = rect.left
            /\ dir.y > 0 => bottom(rect') = bottom(rect)
            /\ dir.y <= 0 => rect'.top = rect.top
            /\ (dir.x = 0 /\ dir.y = 0) => rect' = rect]_vars

\* A rect was grown to the left and upwards.
C6_Witness ==
    last.op = "expand" /\ last.arg.x < 0 /\ last.arg.y > 0

\* C9: centre_on(c) of a rect with wid >= 1 and hgt >= 1 keeps wid and hgt,
\* makes top_left() = (c.x - wid/2, c.y + hgt/2) with the quotients truncated
\* toward zero, leaves c inside the rect, and c is the exact centre or lies
\* one step right of it and/or one step below it.
C9_CentreOn ==
    [][(last'.op = "centre_on" /\ WellFormed(rect)) =>
        LET c == last'.arg
        IN  /\ rect'.wid = rect.wid
            /\ rect'.hgt = rect.hgt
            /\ top_left(rect') = Point(c.x - TruncDiv(rect.wid, 2),
                                       c.y + TruncDiv(rect.hgt, 2))
            /\ contains(rect', c)
            /\ ((c.x - rect'.left) - (right(rect') - c.x)) \in {0, 1}
            /\ ((rect'.top - c.y) - (c.y - bottom(rect'))) \in {0, 1}]_vars

\* A rect of odd width and even height was centred.
C9_Witness ==
    /\ last.op = "centre_on"
    /\ rect.wid >= 3 /\ rect.wid % 2 = 1
    /\ rect.hgt >= 2 /\ rect.hgt % 2 = 0

\* C10: a rect with wid >= 1 and hgt >= 1 keeps wid >= 1 and hgt >= 1 under
\* expand, move_to and centre_on; no step lowers wid or hgt, and move_to and
\* centre_on leave both as they are.
C10_WellFormedKept ==
    [][WellFormed(rect) =>
        /\ WellFormed(rect')
        /\ rect'.wid >= rect.wid
        /\ rect'.hgt >= rect.hgt
        /\ last'.op \in {"move_to", "centre_on"} =>
              (rect'.wid = rect.wid /\ rect'.hgt = rect.hgt)]_vars

\* A well-formed rect, grown beyond any initial size, was then centred.
C10_Witness ==
    /\ last.op = "centre_on"
    /\ rect.wid > MaxDim /\ rect.hgt > MaxDim

====
